---- MODULE Spec2Model ----
(***************************************************************************)
(* Payment tracker of mpesa_agent/callback_manager.py: PaymentTracker      *)
(* (pending_payments, completed_payments, payment_callbacks, one lock) and *)
(* CallbackManager (register_payment, process_callback,                    *)
(* get_payment_status, wait_for_payment_completion, the notification       *)
(* queue and the two background threads).                                  *)
(*                                                                         *)
(* Time is the wall clock in seconds.  Every webhook delivery and every    *)
(* wait_for_payment_completion call is a task of its own with a program    *)
(* counter.  The bodies of add_pending_payment, mark_payment_completed,    *)
(* get_payment_status and cleanup_old_payments run wholly inside the       *)
(* tracker's lock (with self.lock), so each is one step that needs the     *)
(* lock to be free.                                                        *)
(***************************************************************************)
EXTENDS Integers, Sequences, FiniteSets, TLC

VARIABLES
    pending_payments,    \* PaymentTracker.pending_payments: id -> payment_info
    completed_payments,  \* PaymentTracker.completed_payments: id -> payment_info
    payment_callbacks,   \* PaymentTracker.payment_callbacks: id -> callback_func
    lock,                \* PaymentTracker.lock: Free or the task holding it
    notification_queue,  \* CallbackManager.notification_queue
    now,                 \* datetime.now() / time.time(), in seconds
    webhook,             \* one process_callback call per delivered webhook
    waiter,              \* one wait_for_payment_completion call per slot
    cleanup,             \* the _periodic_cleanup thread
    processing,          \* the _process_notifications thread
    payment_tracking,    \* unified_server.payment_tracking: id -> callback result
    whatsapp_sent,       \* what the last unified_server callback sent over WhatsApp
    message,             \* the WhatsApp message text handle_payment_request is given
    payment_request,     \* what handle_payment_request made of the message
    ret                  \* what the last register_payment / get_payment_status returned

vars == <<pending_payments, completed_payments, payment_callbacks, lock,
          notification_queue, now, webhook, waiter, cleanup, processing,
          payment_tracking, whatsapp_sent, message, payment_request, ret>>

servers == <<payment_tracking, whatsapp_sent, message, payment_request>>

tracker == <<pending_payments, completed_payments, payment_callbacks>>

-----------------------------------------------------------------------------
\* Bounds of the model.

\* webhook deliveries (process_callback calls) in one behaviour
NumWebhooks == 2
\* wait_for_payment_completion calls in one behaviour
NumWaiters == 2
\* largest timeout_seconds a waiter passes
MaxTimeout == 1
\* one-second steps of the clock between two larger jumps
MaxSecondTicks == 1
\* jumps of the clock by one staleness window
MaxStaleJumps == 1
\* jumps of the clock by one retention window
MaxDayJumps == 1
\* jumps of the clock by one cleanup period
MaxHourJumps == 2
\* symbols in a WhatsApp message given to handle_payment_request
MaxMessageLen == 7

\* Program constants, in seconds.
\* timedelta(minutes=5) in PaymentTracker.get_payment_status
STALE_SECONDS == 300
\* hours=24 in PaymentTracker.cleanup_old_payments
RETENTION_SECONDS == 86400
\* time.sleep(1) in wait_for_payment_completion
POLL_SECONDS == 1
\* time.sleep(3600) in _periodic_cleanup
CLEANUP_PERIOD == 3600

Ids == {"CHK1", "CHK2"}
Webhooks == 1..NumWebhooks
Waiters == 1..NumWaiters
Timeouts == 0..MaxTimeout

\* Python's None: as a callback_func or an id, and as a missing dict.
None == "None"
NoDict == [none |-> TRUE]

\* The lock's value when no task holds it (a holder is a webhook task's number).
Free == 0

\* The metadata register_payment is called with (phone_number, amount, description).
Metadata ==
    { [phone_number |-> "254700000000", amount |-> 500, description |-> "lunch"],
      [phone_number |-> "254711111111", amount |-> 20,  description |-> "fare"] }

\* The callback_func values a caller may pass to register_payment.
CallbackFuncs == {None, "notify_user"}

\* What a consumer's callback_func may do when it is called with the completed
\* record: return, raise, or call back into the same tracker.
TrackerCallingFuncs == {"query_status", "register_again"}
ConsumerFuncs == {"notify_user", "raise_error"} \cup TrackerCallingFuncs

\* Callback payloads process_callback cannot take an id from: one without a
\* CheckoutRequestID, and one whose Body is null.
BadPayloads == {"no_checkout_request_id", "body_is_null"}

\* The stkCallback part of a provider callback: Body.stkCallback with its
\* CheckoutRequestID, ResultCode, ResultDesc and (on success) the
\* CallbackMetadata.Item list of Name/Value pairs.
CallbackData(id, rc) ==
    IF rc = 0
    THEN [CheckoutRequestID |-> id, ResultCode |-> 0,
          ResultDesc |-> "The service request is processed successfully.",
          Item |-> << [Name |-> "Amount", Value |-> 500],
                      [Name |-> "MpesaReceiptNumber", Value |-> "ABC123"] >>]
    ELSE [CheckoutRequestID |-> id, ResultCode |-> rc,
          ResultDesc |-> "Request cancelled by user"]

ResultCodes == {0, 1032}

-----------------------------------------------------------------------------
\* Python dict helpers.

Has(d, k) == k \in DOMAIN d

Put(d, k, v) == [x \in DOMAIN d \cup {k} |-> IF x = k THEN v ELSE d[x]]

\* Mutant of Pop: the whole dict is cleared.
PopClears(d, k) == [x \in {} |-> d[k]]

Pop(d, k) == [x \in DOMAIN d \ {k} |-> d[x]]

EmptyDict == [x \in {} |-> None]

-----------------------------------------------------------------------------
\* PaymentTracker

\* The record add_pending_payment stores: {**payment_info, initiated_at, status}.
PendingRecord(id, meta, t) ==
    [checkout_request_id |-> id,
     phone_number |-> meta.phone_number,
     amount |-> meta.amount,
     description |-> meta.description,
     initiated_at |-> t,
     status |-> "pending"]

\* add_pending_payment: the three maps after the call.  The id's entry is
\* assigned unconditionally; the callback entry only when one is given.
add_pending_payment(id, meta, cb) ==
    /\ pending_payments' = Put(pending_payments, id, PendingRecord(id, meta, now))
    /\ payment_callbacks' = IF cb # None THEN Put(payment_callbacks, id, cb)
                            ELSE payment_callbacks
    /\ UNCHANGED completed_payments

\* for item in items: payment_details[item.get('Name')] = item.get('Value')
RECURSIVE PaymentDetails(_)
PaymentDetails(items) ==
    IF items = <<>> THEN EmptyDict
    ELSE LET item == items[Len(items)]
             front == SubSeq(items, 1, Len(items) - 1) IN
         IF Has(PaymentDetails(front), item.Name)
         THEN [PaymentDetails(front) EXCEPT ![item.Name] = item.Value]
         ELSE Put(PaymentDetails(front), item.Name, item.Value)

\* The record mark_payment_completed builds from the popped pending record.
CompletedRecord(info, data, t) ==
    IF data.ResultCode = 0
    THEN [checkout_request_id |-> info.checkout_request_id,
          phone_number |-> info.phone_number,
          amount |-> info.amount,
          description |-> info.description,
          initiated_at |-> info.initiated_at,
          completed_at |-> t,
          callback_data |-> data,
          status |-> "success",
          payment_details |-> PaymentDetails(data.Item)]
    ELSE [checkout_request_id |-> info.checkout_request_id,
          phone_number |-> info.phone_number,
          amount |-> info.amount,
          description |-> info.description,
          initiated_at |-> info.initiated_at,
          completed_at |-> t,
          callback_data |-> data,
          status |-> "failed",
          error_message |-> data.ResultDesc]

\* Mutant of StaleCopy: the window test made inclusive (>= for >).
StaleCopyInclusive(payment, t) ==
    IF t - payment.initiated_at >= STALE_SECONDS
    THEN [payment EXCEPT !.status = "timeout"]
    ELSE payment

\* payment.copy() in get_payment_status, with the read-time reclassification
\* applied to the copy.
StaleCopy(payment, t) ==
    IF t - payment.initiated_at > STALE_SECONDS
    THEN [payment EXCEPT !.status = "timeout"]
    ELSE payment

\* Mutant of PendingAfterRead: the .copy() dropped, so that the
\* reclassification is written to the stored record.
PendingAfterReadInPlace(pend, id, t) ==
    IF Has(pend, id) /\ ~Has(completed_payments, id)
    THEN [pend EXCEPT ![id] = StaleCopy(pend[id], t)]
    ELSE pend

\* What a get_payment_status call leaves in pending_payments: the
\* reclassification is written to a copy, the stored record is not touched.
PendingAfterRead(pend, id, t) == pend

\* PaymentTracker.get_payment_status: completed first, then pending, else None.
TrackerStatus(id) ==
    IF Has(completed_payments, id) THEN completed_payments[id]
    ELSE IF Has(pending_payments, id) THEN StaleCopy(pending_payments[id], now)
    ELSE NoDict

\* PaymentTracker.cleanup_old_payments, the part under the lock: the completed
\* records that stay, given the cutoff computed before the lock was taken.
CompletedTime(payment) ==
    IF Has(payment, "completed_at") THEN payment.completed_at
    ELSE payment.initiated_at

\* Mutant of SweepKeeps: the age taken from initiated_at, not completed_at.
SweepKeepsByInitiated(payment, cutoff) == ~(payment.initiated_at < cutoff)

SweepKeeps(payment, cutoff) == ~(CompletedTime(payment) < cutoff)

Swept(completed, cutoff) ==
    [x \in {y \in DOMAIN completed : SweepKeeps(completed[y], cutoff)}
        |-> completed[x]]

-----------------------------------------------------------------------------
\* Initial state: CallbackManager.__init__ (empty tracker, empty queue, both
\* background threads started), no call in flight.

IdleWebhook == [pc |-> "idle", data |-> NoDict, payment_info |-> NoDict,
                callback_func |-> None, result |-> NoDict,
                request |-> None, logged |-> None, response |-> NoDict]

IdleWaiter == [pc |-> "idle", id |-> None, timeout |-> 0, start_time |-> 0,
               payment_info |-> NoDict, wake_at |-> 0, result |-> NoDict]

Init ==
    /\ pending_payments = EmptyDict
    /\ completed_payments = EmptyDict
    /\ payment_callbacks = EmptyDict
    /\ lock = Free
    /\ notification_queue = <<>>
    /\ now = 0
    /\ webhook = [t \in Webhooks |-> IdleWebhook]
    /\ waiter = [w \in Waiters |-> IdleWaiter]
    /\ cleanup = [pc |-> "sleep", wake_at |-> CLEANUP_PERIOD, cutoff |-> 0,
                  error_logged |-> FALSE]
    /\ processing = [pc |-> "get", error_logged |-> FALSE]
    /\ payment_tracking = EmptyDict
    /\ whatsapp_sent = <<>>
    /\ message = <<>>
    /\ payment_request = NoDict
    /\ ret = NoDict

-----------------------------------------------------------------------------
\* The clock.  It advances by a second, by a staleness window or by a
\* retention window; the number of steps of each size is bounded.

Advance(d) ==
    /\ now' = now + d
    /\ UNCHANGED <<tracker, lock, notification_queue, webhook, waiter, cleanup, processing, servers, ret>>

TickSecond ==
    /\ now % STALE_SECONDS < MaxSecondTicks
    /\ Advance(POLL_SECONDS)

TickStale ==
    /\ (now % RETENTION_SECONDS) \div STALE_SECONDS < MaxStaleJumps
    /\ Advance(STALE_SECONDS)

TickDay ==
    /\ now \div RETENTION_SECONDS < MaxDayJumps
    /\ Advance(RETENTION_SECONDS)

\* One sleep of the cleanup thread.
TickHour ==
    /\ (now % RETENTION_SECONDS) \div CLEANUP_PERIOD < MaxHourJumps
    /\ Advance(CLEANUP_PERIOD)

-----------------------------------------------------------------------------
\* CallbackManager.register_payment

RegisterResult(id, meta) ==
    [op |-> "register_payment", id |-> id, status |-> "registered",
     payment_status |-> None]

register_payment(id, meta, cb) ==
    /\ lock = Free
    /\ add_pending_payment(id, meta, cb)
    /\ ret' = RegisterResult(id, meta)
    /\ UNCHANGED <<lock, notification_queue, now, webhook, waiter, cleanup, processing, servers>>

-----------------------------------------------------------------------------
\* CallbackManager.get_payment_status

StatusResult(id, payment_info) ==
    IF payment_info # NoDict
    THEN [op |-> "get_payment_status", id |-> id, status |-> "found",
          payment_status |-> payment_info.status]
    ELSE [op |-> "get_payment_status", id |-> id, status |-> "not_found",
          payment_status |-> None]

get_payment_status(id) ==
    /\ lock = Free
    /\ ret' = StatusResult(id, TrackerStatus(id))
    /\ pending_payments' = PendingAfterRead(pending_payments, id, now)
    /\ UNCHANGED <<completed_payments, payment_callbacks, lock, notification_queue,
                   now, webhook, waiter, cleanup, processing, servers>>

-----------------------------------------------------------------------------
\* CallbackManager.process_callback, one task per delivered webhook.

\* PaymentTracker.mark_payment_completed: the maps after the call and the
\* value returned (the completed record, or None when the id is not pending).
MarkReturns(id, data) ==
    IF Has(pending_payments, id)
    THEN CompletedRecord(pending_payments[id], data, now)
    ELSE NoDict

\* Mutant of mark_payment_completed: the pending record read with [] and
\* not popped, so that the record left in pending_payments is the one that
\* was completed in place.
mark_payment_completed_in_place(id, data) ==
    IF Has(pending_payments, id)
    THEN /\ pending_payments' = Put(pending_payments, id, MarkReturns(id, data))
         /\ completed_payments' = Put(completed_payments, id, MarkReturns(id, data))
         /\ payment_callbacks' = IF Has(payment_callbacks, id)
                                 THEN Pop(payment_callbacks, id)
                                 ELSE payment_callbacks
    ELSE UNCHANGED tracker

mark_payment_completed(id, data) ==
    IF Has(pending_payments, id)
    THEN /\ pending_payments' = Pop(pending_payments, id)
         /\ completed_payments' = Put(completed_payments, id, MarkReturns(id, data))
         /\ payment_callbacks' = IF Has(payment_callbacks, id)
                                 THEN Pop(payment_callbacks, id)
                                 ELSE payment_callbacks
    ELSE UNCHANGED tracker

\* if checkout_request_id in self.payment_callbacks, for a pending id.
CallbackRegistered(id) == Has(pending_payments, id) /\ Has(payment_callbacks, id)

\* process_callback up to the return of mark_payment_completed or, when a
\* completion callback is registered for the id, up to the call of that
\* callback, which is made with the lock held.  Webhook tasks are numbered in
\* the order in which they enter process_callback.
process_callback(t, id, rc) ==
    LET data == CallbackData(id, rc) IN
    /\ webhook[t].pc = "idle"
    /\ \A u \in Webhooks : u < t => webhook[u].pc # "idle"
    /\ lock = Free
    /\ mark_payment_completed(id, data)
    /\ IF CallbackRegistered(id)
       THEN /\ lock' = t
            /\ webhook' = [webhook EXCEPT ![t] =
                               [@ EXCEPT !.pc = "callback", !.data = data,
                                         !.payment_info = MarkReturns(id, data),
                                         !.callback_func = payment_callbacks[id]]]
       ELSE /\ lock' = lock
            /\ webhook' = [webhook EXCEPT ![t] =
                               [@ EXCEPT !.pc = "returned", !.data = data,
                                         !.payment_info = MarkReturns(id, data)]]
    /\ UNCHANGED <<notification_queue, now, waiter, cleanup, processing, servers, ret>>

\* callback_func(payment_info) inside mark_payment_completed's with self.lock.
\* A callback that returns or raises (the exception is caught) lets the with
\* block end, which releases the lock.  A callback that calls
\* get_payment_status or add_pending_payment of the same tracker has to take
\* the lock itself; threading.Lock is not reentrant.
payment_callback(t) ==
    LET func == webhook[t].callback_func
        id == webhook[t].data.CheckoutRequestID IN
    /\ webhook[t].pc = "callback"
    /\ func \in TrackerCallingFuncs => lock = Free
    /\ IF func = "register_again"
       THEN add_pending_payment(id, [phone_number |-> webhook[t].payment_info.phone_number,
                                     amount |-> webhook[t].payment_info.amount,
                                     description |-> webhook[t].payment_info.description],
                                None)
       ELSE UNCHANGED tracker
    /\ lock' = Free
    /\ webhook' = [webhook EXCEPT ![t] = [@ EXCEPT !.pc = "returned",
                                                   !.callback_func = None]]
    /\ UNCHANGED <<notification_queue, now, waiter, cleanup, processing, servers, ret>>

\* Mutant of ProcessCallbackExcept: the exception is passed on to the caller.
ProcessCallbackReraise(payload) == [status |-> "raised", payment_status |-> None]

\* except Exception as e: return {'status': 'error', ...}
ProcessCallbackExcept(payload) == [status |-> "error", payment_status |-> None]

\* if not checkout_request_id: return {'status': 'error', ...}
NoCheckoutRequestID == [status |-> "error", payment_status |-> None]

\* process_callback for a payload it cannot take an id from: without a
\* CheckoutRequestID it returns the error outcome; with a null Body,
\* body.get raises AttributeError inside the try block.
process_callback_rejected(t, payload) ==
    /\ webhook[t].pc = "idle"
    /\ \A u \in Webhooks : u < t => webhook[u].pc # "idle"
    /\ webhook' = [webhook EXCEPT ![t] =
                       [@ EXCEPT !.pc = "done",
                                 !.result = IF payload = "body_is_null"
                                            THEN ProcessCallbackExcept(payload)
                                            ELSE NoCheckoutRequestID]]
    /\ UNCHANGED <<tracker, lock, notification_queue, now, waiter, cleanup, processing, servers, ret>>

\* Mutant of CallbackResult: an unknown payment reported as an error.
CallbackResultUnknownIsError(id, payment_info) ==
    IF payment_info # NoDict
    THEN [status |-> "success", payment_status |-> payment_info.status]
    ELSE [status |-> "error", payment_status |-> None]

\* A success callback whose CallbackMetadata is null: the id and the result
\* code are read as usual, callback_metadata.get('Item', []) raises
\* AttributeError.
MalformedCallbackData(id) ==
    [CheckoutRequestID |-> id, ResultCode |-> 0,
     ResultDesc |-> "The service request is processed successfully.",
     CallbackMetadata |-> None]

\* mark_payment_completed when the extraction of the payment details raises:
\* the pending record has been popped (line 41) and is not yet stored in
\* completed_payments (line 65); the callback entry is still in place.
mark_payment_completed_raises(id) ==
    /\ pending_payments' = Pop(pending_payments, id)
    /\ UNCHANGED <<completed_payments, payment_callbacks>>

\* process_callback for a success callback with a null CallbackMetadata.  For
\* an id that is not pending mark_payment_completed returns None before it
\* looks at the result fields; for a pending id it raises, the with block
\* releases the lock and process_callback's except clause returns the error
\* outcome.
process_callback_malformed(t, id) ==
    /\ webhook[t].pc = "idle"
    /\ \A u \in Webhooks : u < t => webhook[u].pc # "idle"
    /\ lock = Free
    /\ IF Has(pending_payments, id)
       THEN /\ mark_payment_completed_raises(id)
            /\ webhook' = [webhook EXCEPT ![t] =
                               [@ EXCEPT !.pc = "done",
                                         !.data = MalformedCallbackData(id),
                                         !.result = ProcessCallbackExcept(id)]]
       ELSE /\ UNCHANGED tracker
            /\ webhook' = [webhook EXCEPT ![t] =
                               [@ EXCEPT !.pc = "returned",
                                         !.data = MalformedCallbackData(id)]]
    /\ UNCHANGED <<lock, notification_queue, now, waiter, cleanup, processing, servers, ret>>

\* The outcome process_callback returns for what mark_payment_completed gave.
CallbackResult(id, payment_info) ==
    IF payment_info # NoDict
    THEN [status |-> "success", payment_status |-> payment_info.status]
    ELSE [status |-> "warning", payment_status |-> None]

Notification(id, payment_info) ==
    [type |-> "payment_completed", checkout_request_id |-> id,
     payment_status |-> payment_info.status]

\* Mutant of process_callback_return: the notification is put whatever
\* mark_payment_completed returned.
process_callback_return_always_puts(t) ==
    LET id == webhook[t].data.CheckoutRequestID
        info == webhook[t].payment_info IN
    /\ webhook[t].pc = "returned"
    /\ notification_queue' =
           Append(notification_queue,
                  [type |-> "payment_completed", checkout_request_id |-> id,
                   payment_status |-> IF info # NoDict THEN info.status ELSE None])
    /\ webhook' = [webhook EXCEPT ![t] = [@ EXCEPT !.pc = "done",
                                          !.payment_info = NoDict,
                                          !.result = CallbackResult(id, info)]]
    /\ UNCHANGED <<tracker, lock, now, waiter, cleanup, processing, servers, ret>>

\* if payment_info: notification_queue.put(...); return the outcome.
process_callback_return(t) ==
    LET id == webhook[t].data.CheckoutRequestID
        info == webhook[t].payment_info IN
    /\ webhook[t].pc = "returned"
    /\ notification_queue' = IF info # NoDict
                             THEN Append(notification_queue, Notification(id, info))
                             ELSE notification_queue
    /\ webhook' = [webhook EXCEPT ![t] = [@ EXCEPT !.pc = "done",
                                          !.payment_info = NoDict,
                                          !.result = CallbackResult(id, info)]]
    /\ UNCHANGED <<tracker, lock, now, waiter, cleanup, processing, servers, ret>>

-----------------------------------------------------------------------------
\* CallbackManager.wait_for_payment_completion, one task per call.

TerminalForWait == {"success", "failed", "timeout"}

\* start_time = time.time().  Waiters are numbered in the order of their calls.
wait_for_payment_completion(w, id, timeout) ==
    /\ waiter[w].pc = "idle"
    /\ \A u \in Waiters : u < w => waiter[u].pc # "idle"
    /\ waiter' = [waiter EXCEPT ![w] = [@ EXCEPT !.pc = "loop", !.id = id,
                         !.timeout = timeout, !.start_time = now]]
    /\ UNCHANGED <<tracker, lock, notification_queue, now, webhook, cleanup, processing, servers, ret>>

\* while time.time() - start_time < timeout_seconds
LoopContinues(start_time, timeout, t) == t - start_time < timeout

TimeoutResult == [status |-> "timeout", payment_status |-> None]

wait_loop(w) ==
    /\ waiter[w].pc = "loop"
    /\ waiter' = IF LoopContinues(waiter[w].start_time, waiter[w].timeout, now)
                 THEN [waiter EXCEPT ![w].pc = "poll"]
                 ELSE [waiter EXCEPT ![w] = [@ EXCEPT !.pc = "done",
                                                      !.result = TimeoutResult]]
    /\ UNCHANGED <<tracker, lock, notification_queue, now, webhook, cleanup, processing, servers, ret>>

WaitCompleted(payment_info) ==
    [status |-> "completed", payment_status |-> payment_info.status]

\* if payment_info and payment_info['status'] in ['success', 'failed', 'timeout']
PollReturns(payment_info) ==
    payment_info # NoDict /\ payment_info.status \in TerminalForWait

\* payment_info = self.tracker.get_payment_status(id); return it when its status
\* is success, failed or timeout, else time.sleep(1).
wait_poll(w) ==
    LET info == TrackerStatus(waiter[w].id) IN
    /\ waiter[w].pc = "poll"
    /\ lock = Free
    /\ pending_payments' = PendingAfterRead(pending_payments, waiter[w].id, now)
    /\ waiter' = IF PollReturns(info)
                 THEN [waiter EXCEPT ![w] = [@ EXCEPT !.pc = "done",
                                                      !.payment_info = info,
                                                      !.result = WaitCompleted(info)]]
                 ELSE [waiter EXCEPT ![w] = [@ EXCEPT !.pc = "sleep",
                                                      !.payment_info = info,
                                                      !.wake_at = now + POLL_SECONDS]]
    /\ UNCHANGED <<completed_payments, payment_callbacks, lock, notification_queue,
                   now, webhook, cleanup, processing, servers, ret>>

\* time.sleep(1) returns.
wait_wake(w) ==
    /\ waiter[w].pc = "sleep"
    /\ now >= waiter[w].wake_at
    /\ waiter' = [waiter EXCEPT ![w] = [@ EXCEPT !.pc = "loop", !.wake_at = 0]]
    /\ UNCHANGED <<tracker, lock, notification_queue, now, webhook, cleanup, processing, servers, ret>>

-----------------------------------------------------------------------------
\* send_instant_payment_with_tracking (app/mpesa_agent/agent.py), the part
\* that turns the wait's JSON result into the status relayed to the user:
\* 'completed' with payment status 'success' is a success, 'completed' with
\* any other payment status is "Payment failed", anything else is the
\* "completion status unknown" answer with payment_status 'pending'.
send_instant_payment_with_tracking(wait_result) ==
    IF wait_result.status = "completed"
    THEN IF wait_result.payment_status = "success"
         THEN [status |-> "success", payment_status |-> "completed"]
         ELSE [status |-> "failed", payment_status |-> "failed"]
    ELSE [status |-> "timeout", payment_status |-> "pending"]

-----------------------------------------------------------------------------
\* The background threads.

\* _periodic_cleanup: time.sleep(3600) returns and cleanup_old_payments
\* computes its cutoff (datetime.now() - timedelta(hours)) before taking the lock.
periodic_cleanup(hours_seconds) ==
    /\ cleanup.pc = "sleep"
    /\ now >= cleanup.wake_at
    /\ cleanup' = [cleanup EXCEPT !.pc = "sweep", !.cutoff = now - hours_seconds]
    /\ UNCHANGED <<tracker, lock, notification_queue, now, webhook, waiter,
                   processing, servers, ret>>

\* cleanup_old_payments under the lock, then back to sleep.
cleanup_old_payments ==
    /\ cleanup.pc = "sweep"
    /\ lock = Free
    /\ completed_payments' = Swept(completed_payments, cleanup.cutoff)
    /\ cleanup' = [cleanup EXCEPT !.pc = "sleep", !.wake_at = now + CLEANUP_PERIOD]
    /\ UNCHANGED <<pending_payments, payment_callbacks, lock, notification_queue,
                   now, webhook, waiter, processing, servers, ret>>

\* except Exception in _periodic_cleanup: the error is printed and the loop
\* goes back to its sleep.
CleanupExcept ==
    [cleanup EXCEPT !.pc = "sleep", !.wake_at = now + CLEANUP_PERIOD,
                    !.error_logged = TRUE]

\* A cleanup_old_payments run that raises while it reads the completed
\* records: nothing has been removed yet, the with statement frees the lock.
cleanup_old_payments_raises ==
    /\ cleanup.pc = "sweep"
    /\ lock = Free
    /\ DOMAIN completed_payments # {}
    /\ cleanup' = CleanupExcept
    /\ UNCHANGED <<tracker, lock, notification_queue, now, webhook, waiter,
                   processing, servers, ret>>

\* _process_notifications: one notification is taken off the queue and
\* printed.  (An empty queue makes get(timeout=1) raise queue.Empty, and the
\* loop continues: no change of state.)
process_notifications ==
    /\ processing.pc = "get"
    /\ notification_queue # <<>>
    /\ notification_queue' = Tail(notification_queue)
    /\ UNCHANGED <<tracker, lock, now, webhook, waiter, cleanup, processing, servers, ret>>

\* except Exception in _process_notifications: the error is printed and the
\* loop goes back to get.
NotificationExcept == [processing EXCEPT !.error_logged = TRUE]

\* Handling the notification raises after get has taken it off the queue.
process_notifications_raises ==
    /\ processing.pc = "get"
    /\ notification_queue # <<>>
    /\ notification_queue' = Tail(notification_queue)
    /\ processing' = NotificationExcept
    /\ UNCHANGED <<tracker, lock, now, webhook, waiter, cleanup, servers, ret>>

-----------------------------------------------------------------------------
\* Specifications.

\* One id is ever registered ("CHK1"); "CHK2" is an id the tracker hears of
\* only in callbacks, queries and waits.
Registered == {"CHK1"}

\* The metadata and callback of the registrations where neither matters.
PlainMetadata == {[phone_number |-> "254700000000", amount |-> 500,
                   description |-> "lunch"]}
NoCallbackFunc == {None}

\* Spec: the registry under registrations and webhook deliveries.
Next ==
    \/ TickSecond
    \/ \E id \in Registered, meta \in Metadata, cb \in CallbackFuncs :
           register_payment(id, meta, cb)
    \/ \E t \in Webhooks, id \in Ids, rc \in ResultCodes : process_callback(t, id, rc)
    \/ \E t \in Webhooks, id \in Registered : process_callback_malformed(t, id)
    \/ \E t \in Webhooks, payload \in BadPayloads :
           process_callback_rejected(t, payload)
    \/ \E t \in Webhooks : payment_callback(t)
    \/ \E t \in Webhooks : process_callback_return(t)
    \/ process_notifications

Spec == Init /\ [][Next]_vars

\* SpecRead: status reads across the staleness window, with registrations and
\* webhook deliveries.
NextRead ==
    \/ TickSecond
    \/ TickStale
    \/ \E id \in Registered, meta \in PlainMetadata, cb \in NoCallbackFunc :
           register_payment(id, meta, cb)
    \/ \E id \in Registered : get_payment_status(id)
    \/ \E t \in Webhooks, id \in Registered, rc \in ResultCodes :
           process_callback(t, id, rc)
    \/ \E t \in Webhooks : process_callback_return(t)

SpecRead == Init /\ [][NextRead]_vars

\* SpecStale: waits across the staleness window, with registrations and
\* webhook deliveries.
NextStale ==
    \/ TickSecond
    \/ TickStale
    \/ \E id \in Registered, meta \in PlainMetadata, cb \in NoCallbackFunc :
           register_payment(id, meta, cb)
    \/ \E t \in Webhooks, id \in Registered, rc \in {0} :
           process_callback(t, id, rc)
    \/ \E t \in Webhooks : process_callback_return(t)
    \/ \E w \in Waiters, id \in Registered, timeout \in Timeouts :
           wait_for_payment_completion(w, id, timeout)
    \/ \E w \in Waiters : wait_loop(w)
    \/ \E w \in Waiters : wait_poll(w)
    \/ \E w \in Waiters : wait_wake(w)

SpecStale == Init /\ [][NextStale]_vars

\* SpecWait: blocking waits against registrations and webhook deliveries.
NextWait ==
    \/ TickSecond
    \/ \E id \in Registered, meta \in PlainMetadata, cb \in NoCallbackFunc :
           register_payment(id, meta, cb)
    \/ \E t \in Webhooks, id \in Registered, rc \in ResultCodes :
           process_callback(t, id, rc)
    \/ \E t \in Webhooks : process_callback_return(t)
    \/ \E w \in Waiters, id \in Ids, timeout \in Timeouts :
           wait_for_payment_completion(w, id, timeout)
    \/ \E w \in Waiters : wait_loop(w)
    \/ \E w \in Waiters : wait_poll(w)
    \/ \E w \in Waiters : wait_wake(w)

SpecWait == Init /\ [][NextWait]_vars

\* SpecCallback: webhook deliveries for payments registered with a completion
\* callback, with waits in progress.  A task that is inside process_callback
\* or wait_for_payment_completion goes on running whenever it can.
NextCallback ==
    \/ TickSecond
    \/ \E id \in Registered, meta \in PlainMetadata, cb \in ConsumerFuncs :
           register_payment(id, meta, cb)
    \/ \E t \in Webhooks, id \in Registered, rc \in {0} :
           process_callback(t, id, rc)
    \/ \E t \in Webhooks : payment_callback(t)
    \/ \E t \in Webhooks : process_callback_return(t)
    \/ \E w \in Waiters, id \in Registered, timeout \in {MaxTimeout} :
           wait_for_payment_completion(w, id, timeout)
    \/ \E w \in Waiters : wait_loop(w)
    \/ \E w \in Waiters : wait_poll(w)
    \/ \E w \in Waiters : wait_wake(w)

SpecCallback ==
    /\ Init /\ [][NextCallback]_vars
    /\ \A t \in Webhooks : WF_vars(payment_callback(t))
    /\ \A t \in Webhooks : WF_vars(process_callback_return(t))
    /\ \A w \in Waiters : WF_vars(wait_loop(w) \/ wait_poll(w) \/ wait_wake(w))

-----------------------------------------------------------------------------
\* Properties.

TerminalStates == {"success", "failed"}

\* What get_payment_status(id) reports: the status of the record, or None.
Reported(id) ==
    IF TrackerStatus(id) = NoDict THEN None ELSE TrackerStatus(id).status

\* C1: once a completion has moved id's record to success or failed, the
\* state get_payment_status reports for id never becomes the other terminal
\* state, whatever calls follow.
C1_TerminalStateIsFinal ==
    [][\A id \in Ids :
          (Reported(id) \in TerminalStates /\ Reported(id)' \in TerminalStates)
              => Reported(id)' = Reported(id)]_vars

\* C2: register_payment with an id that already has a Pending record reports
\* a conflict and leaves the record (metadata, initiated_at) and the
\* registered completion callback as they were.
C2_DuplicateRegisterConflicts ==
    [][\A id \in Registered, meta \in Metadata, cb \in CallbackFuncs :
          (Has(pending_payments, id) /\ register_payment(id, meta, cb))
              => /\ ret'.status = "conflict"
                 /\ pending_payments' = pending_payments
                 /\ payment_callbacks' = payment_callbacks]_vars

\* C3: a process_callback delivered for an id whose record is already
\* terminal changes nothing in the registry and its outcome is neither a
\* warning (unknown payment) nor an error, and carries the record's terminal
\* state.
C3_DuplicateCallbackAlreadyCompleted ==
    [][\A t \in Webhooks, id \in Ids, rc \in ResultCodes :
          (/\ Has(completed_payments, id)
           /\ ~Has(pending_payments, id)
           /\ process_callback(t, id, rc))
              => /\ UNCHANGED tracker
                 /\ CallbackResult(id, webhook'[t].payment_info).status
                        \notin {"warning", "error"}
                 /\ CallbackResult(id, webhook'[t].payment_info).payment_status
                        = completed_payments[id].status]_vars

\* C4: when several tasks are inside process_callback for the same Pending id
\* at once, one of them performs the transition and every other one leaves
\* the stored record as the first wrote it and gets an "already completed"
\* outcome.
InFlightTransition(u, id) ==
    /\ webhook[u].pc = "returned"
    /\ webhook[u].data.CheckoutRequestID = id
    /\ webhook[u].payment_info # NoDict

C4_ConcurrentDuplicatesOneTransition ==
    [][\A t \in Webhooks, u \in Webhooks, id \in Ids, rc \in ResultCodes :
          (/\ t # u
           /\ InFlightTransition(u, id)
           /\ completed_payments[id] = webhook[u].payment_info
           /\ ~Has(pending_payments, id)
           /\ process_callback(t, id, rc))
              => /\ completed_payments'[id] = webhook[u].payment_info
                 /\ webhook'[t].payment_info = NoDict
                 /\ CallbackResult(id, webhook'[t].payment_info).status
                        = "already_completed"]_vars

\* C5: a waiter whose last poll found the record Pending, and whose record is
\* then completed before the wait's timeout has elapsed, returns the terminal
\* record and not the timeout result.
CompletedWhileWaiting(w) ==
    LET id == waiter[w].id IN
    /\ waiter[w].payment_info # NoDict
    /\ waiter[w].payment_info.status = "pending"
    /\ Has(completed_payments, id)
    /\ completed_payments[id].initiated_at = waiter[w].payment_info.initiated_at
    /\ completed_payments[id].completed_at - waiter[w].start_time < waiter[w].timeout

C5_WaiterReleasedByCompletion ==
    \A w \in Waiters :
        (waiter[w].pc = "done" /\ CompletedWhileWaiting(w))
            => /\ waiter[w].result.status = "completed"
               /\ waiter[w].result.payment_status \in TerminalStates

\* C6: a wait for an id that is not in the registry returns a not-found
\* result at its first poll, without sleeping, and never the timeout result.
C6_WaitUnknownIdNotFound ==
    [][\A w \in Waiters :
          (wait_poll(w) /\ TrackerStatus(waiter[w].id) = NoDict)
              => /\ waiter'[w].pc = "done"
                 /\ waiter'[w].result.status = "not_found"]_vars

\* C7, as claimed: a finished wait on a record that is still stored as Pending
\* (never completed) has returned the timeout result, never 'completed'.
StillPending(id) == Has(pending_payments, id) /\ ~Has(completed_payments, id)

C8_WaitOnTerminalReturnsRecord ==
    \A w \in Waiters :
        (/\ waiter[w].pc = "done"
         /\ Has(completed_payments, waiter[w].id)
         /\ completed_payments[waiter[w].id].completed_at < waiter[w].start_time)
            => /\ waiter[w].result.status = "completed"
               /\ waiter[w].result.payment_status
                      = completed_payments[waiter[w].id].status

\* C9: of the waiters blocked on an id when its completion arrives, before
\* their timeouts have elapsed, none misses the completion that another one
\* is released by: when one has returned the terminal record, every other
\* one that had found the record Pending returns the same terminal record.
ReleasedByCompletion(w) ==
    LET id == waiter[w].id IN
    /\ Has(completed_payments, id)
    /\ waiter[w].start_time <= completed_payments[id].completed_at
    /\ waiter[w].result.status = "completed"
    /\ waiter[w].payment_info = completed_payments[id]

C9_AllWaitersReleased ==
    \A w1 \in Waiters, w2 \in Waiters :
        (/\ w1 # w2
         /\ waiter[w1].pc = "done" /\ waiter[w2].pc = "done"
         /\ waiter[w1].id = waiter[w2].id
         /\ ReleasedByCompletion(w1)
         /\ CompletedWhileWaiting(w2))
            => /\ waiter[w2].result.status = "completed"
               /\ waiter[w2].payment_info = waiter[w1].payment_info

\* C10: get_payment_status on a Pending record older than the staleness
\* window reports 'timeout' and leaves the stored record as it was (in
\* pending_payments, status 'pending'); a process_callback for a record that
\* old still moves it to success or failed, which is then what
\* get_payment_status reports.
Stale(id) ==
    Has(pending_payments, id)
        /\ now - pending_payments[id].initiated_at > STALE_SECONDS

NextSweep ==
    \/ TickSecond
    \/ TickDay
    \/ \E id \in Registered, meta \in PlainMetadata, cb \in NoCallbackFunc :
           register_payment(id, meta, cb)
    \/ \E t \in Webhooks, id \in Registered, rc \in {0} :
           process_callback(t, id, rc)
    \/ \E t \in Webhooks, id \in Registered : process_callback_malformed(t, id)
    \/ \E t \in Webhooks : process_callback_return(t)
    \/ periodic_cleanup(RETENTION_SECONDS)
    \/ cleanup_old_payments

SpecSweep == Init /\ [][NextSweep]_vars

\* SpecOutcome: every operation of the manager on known and unknown ids, with
\* callback payloads that carry no usable id, and one wait.
NextOutcome ==
    \/ TickSecond
    \/ \E id \in Registered, meta \in PlainMetadata, cb \in NoCallbackFunc :
           register_payment(id, meta, cb)
    \/ \E id \in Ids : get_payment_status(id)
    \/ \E t \in Webhooks, id \in Ids, rc \in {0} : process_callback(t, id, rc)
    \/ \E t \in Webhooks, payload \in BadPayloads :
           process_callback_rejected(t, payload)
    \/ \E t \in Webhooks : process_callback_return(t)
    \/ \E w \in {1}, id \in Ids, timeout \in {MaxTimeout} :
           wait_for_payment_completion(w, id, timeout)
    \/ \E w \in Waiters : wait_loop(w)
    \/ \E w \in Waiters : wait_poll(w)
    \/ \E w \in Waiters : wait_wake(w)

SpecOutcome == Init /\ [][NextOutcome]_vars

\* SpecTwoIds: two ids, each registered, completed, queried and waited for,
\* with callbacks that end in an error among the deliveries, and one wait.
NextTwoIds ==
    \/ TickSecond
    \/ \E id \in Ids, meta \in PlainMetadata, cb \in CallbackFuncs :
           register_payment(id, meta, cb)
    \/ \E id \in Ids : get_payment_status(id)
    \/ \E t \in {1}, id \in Ids, rc \in {0} : process_callback(t, id, rc)
    \/ \E t \in {2}, id \in Ids : process_callback_malformed(t, id)
    \/ \E t \in Webhooks : payment_callback(t)
    \/ \E t \in Webhooks : process_callback_return(t)
    \/ \E w \in {1}, id \in Ids, timeout \in {MaxTimeout} :
           wait_for_payment_completion(w, id, timeout)
    \/ \E w \in Waiters : wait_loop(w)
    \/ \E w \in Waiters : wait_poll(w)
    \/ \E w \in Waiters : wait_wake(w)

SpecTwoIds == Init /\ [][NextTwoIds]_vars

\* C11: a process_callback call that has begun runs to completion and leaves
\* the tracker's lock free, whatever waits are in progress and whatever the
\* completion callback registered for the payment does.
InProcessCallback(t) == webhook[t].pc \in {"callback", "returned"}

C11_ProcessCallbackCompletes ==
    \A t \in Webhooks :
        InProcessCallback(t) ~> (webhook[t].pc = "done" /\ lock # t)

\* C12: when cleanup_old_payments has run, every terminal record whose
\* completed_at was older than the retention window when the sweep was called
\* is gone from completed_payments, and get_payment_status for its id returns
\* not_found.
C12_SweepEvictsOldTerminal ==
    [][cleanup_old_payments =>
          \A id \in Ids :
              (Has(completed_payments, id)
                   /\ completed_payments[id].completed_at < cleanup.cutoff)
                  => /\ ~Has(completed_payments', id)
                     /\ StatusResult(id, TrackerStatus(id))'.status = "not_found"]_vars

\* C13: cleanup_old_payments leaves pending_payments and payment_callbacks as
\* they were and keeps every terminal record that is not older than the
\* retention window; an id leaves pending_payments only by being completed,
\* and an id leaves the registry only when the sweep removes its terminal
\* record, older than the retention window.
C13_SweepKeepsPending ==
    [][/\ cleanup_old_payments =>
              /\ pending_payments' = pending_payments
              /\ payment_callbacks' = payment_callbacks
              /\ \A id \in Ids :
                     (Has(completed_payments, id)
                          /\ now - completed_payments[id].completed_at
                                 <= RETENTION_SECONDS)
                         => /\ Has(completed_payments', id)
                            /\ completed_payments'[id] = completed_payments[id]
       /\ \A id \in Ids :
              (Has(pending_payments, id) /\ ~Has(pending_payments', id))
                  => /\ Has(completed_payments', id)
                     /\ completed_payments'[id].completed_at = now
                     /\ completed_payments'[id].initiated_at
                            = pending_payments[id].initiated_at
       /\ \A id \in Ids :
              (/\ Has(pending_payments, id) \/ Has(completed_payments, id)
               /\ ~Has(pending_payments', id)
               /\ ~Has(completed_payments', id))
                  => /\ ~Has(pending_payments, id)
                     /\ cleanup_old_payments
                     /\ now - completed_payments[id].completed_at
                            > RETENTION_SECONDS]_vars

\* C13 witness: a sweep has run and a Pending record older than the retention
\* window is still in pending_payments.
C13_Witness ==
    \E id \in Ids :
        /\ cleanup.pc = "sleep"
        /\ cleanup.wake_at > CLEANUP_PERIOD
        /\ Has(pending_payments, id)
        /\ pending_payments[id].status = "pending"
        /\ now - pending_payments[id].initiated_at > RETENTION_SECONDS

\* C14: no id is in pending_payments and in completed_payments at once.
C14_OneRecordPerId ==
    \A id \in Ids : ~(Has(pending_payments, id) /\ Has(completed_payments, id))

\* C15: process_callback for an id that is in neither pending_payments nor
\* completed_payments changes no map of the tracker, creates no record,
\* enqueues no notification and returns the 'warning' outcome.
UnknownId(id) == ~Has(pending_payments, id) /\ ~Has(completed_payments, id)

C15_UnknownCallbackWarns ==
    [][/\ \A t \in Webhooks, id \in Ids, rc \in ResultCodes :
              (UnknownId(id) /\ process_callback(t, id, rc))
                  => /\ UNCHANGED <<tracker, notification_queue, lock>>
                     /\ webhook'[t].pc = "returned"
                     /\ webhook'[t].payment_info = NoDict
       /\ \A t \in Webhooks :
              (webhook[t].payment_info = NoDict /\ process_callback_return(t))
                  => /\ UNCHANGED <<tracker, notification_queue, lock>>
                     /\ webhook'[t].result.status = "warning"
                     /\ webhook'[t].result.payment_status = None]_vars

\* C15 witness: a process_callback for CHK2, an id the tracker has no record
\* of, has returned the warning outcome, and a record of CHK1 is stored.
C15_Witness ==
    \E t \in Webhooks :
        /\ webhook[t].pc = "done"
        /\ webhook[t].data # NoDict
        /\ webhook[t].data.CheckoutRequestID = "CHK2"
        /\ webhook[t].result.status = "warning"
        /\ UnknownId("CHK2")
        /\ ~UnknownId("CHK1")

\* C16: no step of wait_for_payment_completion changes pending_payments,
\* completed_payments or payment_callbacks (nor takes the lock or enqueues
\* anything), wherever the wait stands; after a wait has returned the timeout
\* result for a record it found Pending, the record is still stored with
\* status 'pending' and a process_callback for it completes it.
TimedOutOnPending(w) ==
    /\ waiter[w].pc = "done"
    /\ waiter[w].result = TimeoutResult
    /\ waiter[w].payment_info # NoDict
    /\ waiter[w].payment_info.status = "pending"
    /\ StillPending(waiter[w].id)

C17_OutcomesAreResultValues ==
    /\ ret # NoDict
           => /\ ret.op = "register_payment" => ret.status = "registered"
              /\ ret.op = "get_payment_status"
                     => /\ ret.status \in {"found", "not_found"}
                        /\ ret.status = "not_found" <=> ret.payment_status = None
    /\ \A t \in Webhooks :
           webhook[t].pc = "done"
               => IF webhook[t].data = NoDict
                  THEN webhook[t].result.status = "error"
                  ELSE /\ webhook[t].result.status \in {"success", "warning"}
                       /\ webhook[t].result.status = "warning"
                              <=> webhook[t].result.payment_status = None
    /\ \A w \in Waiters :
           waiter[w].pc = "done"
               => waiter[w].result.status \in {"completed", "timeout"}

\* C17 witness: a callback without a usable id got 'error', a callback for
\* an id the tracker does not know got 'warning', a wait for an unknown id has
\* returned, and the last get_payment_status, for an unknown id, returned
\* 'not_found'.
C17_Witness ==
    /\ \E t \in Webhooks :
           webhook[t].pc = "done" /\ webhook[t].data = NoDict
               /\ webhook[t].result.status = "error"
    /\ \E t \in Webhooks :
           webhook[t].pc = "done" /\ webhook[t].data # NoDict
               /\ webhook[t].result.status = "warning"
    /\ \E w \in Waiters :
           waiter[w].pc = "done" /\ waiter[w].id = "CHK2"
               /\ waiter[w].result = TimeoutResult
    /\ ret # NoDict /\ ret.status = "not_found"
    /\ Has(pending_payments, "CHK1")

\* C18: after register_payment the id is reported pending; after a success
\* callback for a pending id it is reported success with the receipt number
\* the callback carried; and a failure callback for an id reported success
\* leaves the reported state and the payment details as they were.
Receipt(data) ==
    LET i == CHOOSE j \in 1..Len(data.Item) :
                 data.Item[j].Name = "MpesaReceiptNumber"
    IN data.Item[i].Value

C18_StatusFollowsLifecycle ==
    [][\A id \in Registered :
          /\ (\E meta \in Metadata, cb \in CallbackFuncs :
                  register_payment(id, meta, cb))
                 => Reported(id)' = "pending"
          /\ \A t \in Webhooks :
                 (Has(pending_payments, id) /\ process_callback(t, id, 0))
                     => /\ Reported(id)' = "success"
                        /\ TrackerStatus(id)'.payment_details.MpesaReceiptNumber
                               = Receipt(CallbackData(id, 0))
          /\ \A t \in Webhooks :
                 (Reported(id) = "success" /\ process_callback(t, id, 1032))
                     => /\ Reported(id)' = "success"
                        /\ TrackerStatus(id)'.payment_details
                               = TrackerStatus(id).payment_details]_vars

\* C19: of a finished wait, the relaying code reports 'failed' only when the
\* record the wait read is a stored terminal record with status failed; the
\* timeout result and a record whose status is the read-time 'timeout' are
\* both relayed as still pending.
C19_RelayFailedOnlyWhenFailed ==
    \A w \in Waiters :
        waiter[w].pc = "done"
            => LET relayed == send_instant_payment_with_tracking(waiter[w].result) IN
               /\ relayed.status = "failed"
                      => /\ waiter[w].payment_info # NoDict
                         /\ Has(waiter[w].payment_info, "completed_at")
                         /\ waiter[w].payment_info.status = "failed"
               /\ (waiter[w].result = TimeoutResult
                       \/ waiter[w].result.payment_status = "timeout")
                      => relayed.payment_status = "pending"

\* C20: every record in pending_payments has status 'pending', an
\* initiated_at and neither completed_at, callback_data nor a result detail;
\* every record in completed_payments has status success or failed, an
\* initiated_at, a completed_at not before it, the callback data, and the
\* result detail of its status (payment_details or error_message).
ResultDetailKeys == {"payment_details", "error_message"}

C20_RecordShapeMatchesState ==
    \A id \in Ids :
        /\ Has(pending_payments, id)
               => LET r == pending_payments[id] IN
                  /\ r.status = "pending"
                  /\ Has(r, "initiated_at")
                  /\ ~Has(r, "completed_at")
                  /\ ~Has(r, "callback_data")
                  /\ DOMAIN r \cap ResultDetailKeys = {}
        /\ Has(completed_payments, id)
               => LET r == completed_payments[id] IN
                  /\ r.status \in TerminalStates
                  /\ Has(r, "initiated_at")
                  /\ Has(r, "completed_at")
                  /\ Has(r, "callback_data")
                  /\ r.completed_at >= r.initiated_at
                  /\ DOMAIN r \cap ResultDetailKeys
                         = IF r.status = "success" THEN {"payment_details"}
                           ELSE {"error_message"}

\* C20 witness: a record completed as failed, a second after its
\* registration, is in completed_payments with its error message.
C20_Witness ==
    \E id \in Ids :
        /\ Has(completed_payments, id)
        /\ ~Has(pending_payments, id)
        /\ completed_payments[id].status = "failed"
        /\ completed_payments[id].error_message = CallbackData(id, 1032).ResultDesc
        /\ completed_payments[id].completed_at > completed_payments[id].initiated_at

\* C23: an id that get_payment_status finds is still found after every step
\* that is not the sweep's, and what is found is a whole record: a pending
\* one, or a terminal one with its status and completed_at.
Found(id) == TrackerStatus(id) # NoDict

C23_RegisteredIdAlwaysFound ==
    [][\A id \in Ids :
          Found(id)
              => /\ Found(id)' \/ cleanup_old_payments
                 /\ TrackerStatus(id).status \in {"pending", "timeout"}
                        <=> ~Has(TrackerStatus(id), "completed_at")
                 /\ TrackerStatus(id).status \in TerminalStates
                        <=> Has(TrackerStatus(id), "completed_at")]_vars

\* C24: a process_callback for a Pending id that ends with the error outcome
\* leaves the id's record where it was, in pending_payments with status
\* 'pending'.
C24_ErrorOutcomeKeepsPending ==
    [][\A t \in Webhooks, id \in Ids :
          (/\ Has(pending_payments, id)
           /\ webhook[t].pc = "idle"
           /\ webhook'[t].pc = "done"
           /\ webhook'[t].data # NoDict
           /\ webhook'[t].data.CheckoutRequestID = id
           /\ webhook'[t].result.status = "error")
              => /\ Has(pending_payments', id)
                 /\ pending_payments'[id] = pending_payments[id]
                 /\ pending_payments'[id].status = "pending"]_vars

\* C25: once a well-formed completion callback for an id has been handled,
\* a consumer that has registered the id does not find it pending: the
\* callback is not lost when it came before the registration.
WellFormed(data) == data # NoDict /\ ~Has(data, "CallbackMetadata")

C25_EarlyCallbackNotLost ==
    \A t \in Webhooks :
        (webhook[t].pc = "done" /\ WellFormed(webhook[t].data))
            => Reported(webhook[t].data.CheckoutRequestID) \notin {"pending", "timeout"}

\* C26: the completion callback is called only in the step that moves its id
\* from pending_payments to completed_payments, with the terminal record, and
\* its entry is removed in that step; what the callback does leaves the
\* transition in place; and every id with an entry in payment_callbacks has a
\* record in pending_payments.
CallbackKeysPending == DOMAIN payment_callbacks \subseteq DOMAIN pending_payments

C26_CallbackOnceAtTransition ==
    [][/\ CallbackKeysPending /\ CallbackKeysPending'
       /\ \A t \in Webhooks :
              (webhook[t].pc # "callback" /\ webhook'[t].pc = "callback")
                  => LET id == webhook'[t].data.CheckoutRequestID IN
                     /\ Has(pending_payments, id) /\ ~Has(pending_payments', id)
                     /\ Has(payment_callbacks, id) /\ ~Has(payment_callbacks', id)
                     /\ webhook'[t].callback_func = payment_callbacks[id]
                     /\ webhook'[t].payment_info = completed_payments'[id]
                     /\ completed_payments'[id].status \in TerminalStates
       /\ \A t \in Webhooks :
              payment_callback(t)
                  => /\ UNCHANGED tracker
                     /\ webhook[t].payment_info
                            = completed_payments[webhook[t].data.CheckoutRequestID]]_vars

RecordOf(id) ==
    [pending |-> IF Has(pending_payments, id) THEN pending_payments[id] ELSE NoDict,
     completed |-> IF Has(completed_payments, id) THEN completed_payments[id]
                   ELSE NoDict,
     callback |-> IF Has(payment_callbacks, id) THEN payment_callbacks[id] ELSE None]

OperationOn(a) ==
    \/ \E meta \in Metadata, cb \in CallbackFuncs : register_payment(a, meta, cb)
    \/ get_payment_status(a)
    \/ \E t \in Webhooks, rc \in ResultCodes : process_callback(t, a, rc)
    \/ \E t \in Webhooks : process_callback_malformed(t, a)
    \/ \E t \in Webhooks :
           /\ webhook[t].data # NoDict
           /\ webhook[t].data.CheckoutRequestID = a
           /\ payment_callback(t) \/ process_callback_return(t)
    \/ \E w \in Waiters, timeout \in Timeouts :
           wait_for_payment_completion(w, a, timeout)
    \/ \E w \in Waiters :
           /\ waiter[w].id = a
           /\ wait_loop(w) \/ wait_poll(w) \/ wait_wake(w)

C21_OtherIdsUntouched ==
    [][\A a \in Ids, b \in Ids :
          (a # b /\ RecordOf(b)' # RecordOf(b)) => ~OperationOn(a)]_vars

\* C21 witness: a callback for CHK1 ended with the error outcome and took
\* CHK1's record with it, a wait for CHK1 has returned, and CHK2's pending
\* record and callback are in place.
C21_Witness ==
    /\ \E t \in Webhooks :
           /\ webhook[t].pc = "done"
           /\ webhook[t].data # NoDict
           /\ webhook[t].data.CheckoutRequestID = "CHK1"
           /\ webhook[t].result.status = "error"
    /\ UnknownId("CHK1")
    /\ waiter[1].pc = "done" /\ waiter[1].id = "CHK1"
    /\ Has(pending_payments, "CHK2")
    /\ Has(payment_callbacks, "CHK2")

------------------------------------------------------------------------------
\* callback_server: the /mpesa/callback handler in front of the manager.  A
\* webhook task that came in over HTTP records the kind of body it carried
\* (request), the type of the last log_callback entry the handler wrote for
\* the manager call or for its own failure (logged), and the JSON it answered
\* with (response).

\* return jsonify({"ResultCode": 1, "ResultDesc": "No data received"}), 400
NoDataReceived == [ResultCode |-> 1, http |-> 400]

\* the outer except Exception: ResultCode 1 with HTTP 500
HandlerError == [ResultCode |-> 1, http |-> 500]

\* Mutant of CallbackReceived: the answer follows the manager's result.
CallbackReceivedFromManager(manager_result) ==
    IF manager_result # NoDict /\ manager_result.status = "error"
    THEN [ResultCode |-> 1, http |-> 200]
    ELSE [ResultCode |-> 0, http |-> 200]

\* return jsonify({"ResultCode": 0, "ResultDesc": "Callback received
\* successfully"}): manager_result is not looked at.
CallbackReceived(manager_result) == [ResultCode |-> 0, http |-> 200]

\* Bodies the handler's own extraction raises on, before the manager is
\* called: "Body": null (body.get), and a ResultCode 0 callback with
\* "CallbackMetadata": null (callback_metadata.get).
HandlerRaisingPayloads == {"body_is_null", "callback_metadata_is_null"}

\* CALLBACK_MANAGER_AVAILABLE is set once, at import.  The process runs
\* without the manager if nothing has gone through it, and with it if no
\* callback has been answered without it.
SkippedManager(u) ==
    /\ webhook[u].pc = "responded"
    /\ webhook[u].request \in {"stk_callback", "no_checkout_request_id"}
    /\ webhook[u].logged = None

ManagerAvailable == \A u \in Webhooks : ~SkippedManager(u)

ManagerUnavailable ==
    /\ pending_payments = EmptyDict
    /\ completed_payments = EmptyDict
    /\ \A u \in Webhooks : webhook[u].data = NoDict /\ webhook[u].result = NoDict

\* POST /payment/register: 503 without the manager, else register_payment
\* without a callback_func.
payment_register(id, meta) ==
    /\ ManagerAvailable
    /\ register_payment(id, meta, None)

\* if not callback_data: 400, nothing logged, the manager is not called.
mpesa_callback_no_data(t) ==
    /\ webhook[t].pc = "idle"
    /\ \A u \in Webhooks : u < t => webhook[u].pc # "idle"
    /\ webhook' = [webhook EXCEPT ![t] =
                       [@ EXCEPT !.pc = "responded", !.request = "no_data",
                                 !.response = NoDataReceived]]
    /\ UNCHANGED <<tracker, lock, notification_queue, now, waiter, cleanup,
                   processing, servers, ret>>

\* The handler's extraction raises: the outer except logs "ERROR" and
\* answers 500; the manager is not called.
mpesa_callback_handler_raises(t, payload) ==
    /\ webhook[t].pc = "idle"
    /\ \A u \in Webhooks : u < t => webhook[u].pc # "idle"
    /\ webhook' = [webhook EXCEPT ![t] =
                       [@ EXCEPT !.pc = "responded", !.request = payload,
                                 !.logged = "ERROR", !.response = HandlerError]]
    /\ UNCHANGED <<tracker, lock, notification_queue, now, waiter, cleanup,
                   processing, servers, ret>>

\* if CALLBACK_MANAGER_AVAILABLE is false the manager block is skipped.
mpesa_callback_without_manager(t, payload) ==
    /\ ManagerUnavailable
    /\ webhook[t].pc = "idle"
    /\ \A u \in Webhooks : u < t => webhook[u].pc # "idle"
    /\ webhook' = [webhook EXCEPT ![t] =
                       [@ EXCEPT !.pc = "responded", !.request = payload,
                                 !.response = CallbackReceived(NoDict)]]
    /\ UNCHANGED <<tracker, lock, notification_queue, now, waiter, cleanup,
                   processing, servers, ret>>

\* callback_manager.process_callback(callback_data) for a body the handler
\* has extracted from.
mpesa_callback(t, id, rc) ==
    /\ ManagerAvailable
    /\ process_callback(t, id, rc)

mpesa_callback_no_checkout_request_id(t) ==
    /\ ManagerAvailable
    /\ process_callback_rejected(t, "no_checkout_request_id")

\* After the manager call: the result is logged as "AGENT_INTEGRATION"; if
\* anything in the try block raised, the inner except logs "MANAGER_ERROR".
\* Either way the handler goes on to its answer.
mpesa_callback_respond(t, raised) ==
    /\ webhook[t].pc = "done"
    /\ webhook' = [webhook EXCEPT ![t] =
                       [@ EXCEPT !.pc = "responded",
                                 !.request = IF webhook[t].data = NoDict
                                             THEN "no_checkout_request_id"
                                             ELSE "stk_callback",
                                 !.logged = IF raised THEN "MANAGER_ERROR"
                                            ELSE "AGENT_INTEGRATION",
                                 !.response = CallbackReceived(webhook[t].result)]]
    /\ UNCHANGED <<tracker, lock, notification_queue, now, waiter, cleanup,
                   processing, servers, ret>>

\* SpecServer: callback_server's registrations and callback deliveries.
NextServer ==
    \/ TickSecond
    \/ \E id \in Registered, meta \in PlainMetadata : payment_register(id, meta)
    \/ \E t \in Webhooks : mpesa_callback_no_data(t)
    \/ \E t \in Webhooks, payload \in HandlerRaisingPayloads :
           mpesa_callback_handler_raises(t, payload)
    \/ \E t \in Webhooks, payload \in {"stk_callback", "no_checkout_request_id"} :
           mpesa_callback_without_manager(t, payload)
    \/ \E t \in Webhooks, id \in Ids, rc \in ResultCodes : mpesa_callback(t, id, rc)
    \/ \E t \in Webhooks : mpesa_callback_no_checkout_request_id(t)
    \/ \E t \in Webhooks : process_callback_return(t)
    \/ \E t \in Webhooks, raised \in BOOLEAN : mpesa_callback_respond(t, raised)

SpecServer == Init /\ [][NextServer]_vars

\* C28: an answered callback got ResultCode 0 unless no data was received or
\* the handler failed outside the manager call, whatever the manager returned
\* (success, warning, error), and also when the manager block raised or was
\* skipped.
C28_AcknowledgedWhateverTheManagerSays ==
    \A t \in Webhooks :
        webhook[t].pc = "responded"
            => /\ (webhook[t].request # "no_data" /\ webhook[t].logged # "ERROR")
                      => webhook[t].response.ResultCode = 0
               /\ webhook[t].logged = "ERROR"
                      => webhook[t].request \in HandlerRaisingPayloads

\* C28 witness: one callback for which the manager returned the error outcome
\* and one whose manager block raised have both been answered with
\* ResultCode 0.
C28_Witness ==
    \E t1 \in Webhooks, t2 \in Webhooks :
        /\ webhook[t1].pc = "responded"
        /\ webhook[t1].result # NoDict
        /\ webhook[t1].result.status = "error"
        /\ webhook[t1].response.ResultCode = 0
        /\ webhook[t2].pc = "responded"
        /\ webhook[t2].logged = "MANAGER_ERROR"
        /\ webhook[t2].result # NoDict
        /\ webhook[t2].result.status = "warning"
        /\ webhook[t2].response.ResultCode = 0

------------------------------------------------------------------------------
\* unified_server: its own /mpesa/callback handler, which keeps the last
\* callback of each checkout id in payment_tracking, and
\* GET /payment/status/{checkout_request_id}.

\* The PhoneNumber item a successful callback's metadata may carry.
MetadataPhoneNumbers == {None, "254700000000"}

\* payment_tracking.get(checkout_request_id, {}).get('phone_number')
TrackedPhoneNumber(id) ==
    IF Has(payment_tracking, id) /\ "phone_number" \in DOMAIN payment_tracking[id]
    THEN payment_tracking[id].phone_number
    ELSE None

\* The entry the handler stores for a callback.
TrackingEntry(id, rc) ==
    [result_code |-> rc, result_desc |-> CallbackData(id, rc).ResultDesc,
     timestamp |-> now]

\* The handler for a callback it can extract from: a successful one is
\* confirmed to the PhoneNumber of its metadata, a failed one is reported to
\* the phone number found in payment_tracking; then the entry of the id is
\* replaced and ResultCode 0 is answered.
unified_mpesa_callback(id, rc, phone) ==
    LET phone_number == IF rc = 0 THEN phone ELSE TrackedPhoneNumber(id)
        text == IF rc = 0 THEN "confirmation" ELSE "failure" IN
    /\ rc # 0 => phone = None
    /\ whatsapp_sent' = IF phone_number # None
                        THEN << [to |-> phone_number, text |-> text] >>
                        ELSE << >>
    /\ payment_tracking' = Put(payment_tracking, id, TrackingEntry(id, rc))
    /\ ret' = [op |-> "mpesa_callback", id |-> id, ResultCode |-> 0]
    /\ UNCHANGED <<tracker, lock, notification_queue, now, webhook, waiter,
                   cleanup, processing, message, payment_request>>

\* A callback the extraction raises on ("Body": null): the except clause
\* answers ResultCode 1; nothing is sent and nothing is stored.
unified_mpesa_callback_raises ==
    /\ whatsapp_sent' = << >>
    /\ ret' = [op |-> "mpesa_callback", id |-> None, ResultCode |-> 1]
    /\ UNCHANGED <<tracker, lock, notification_queue, now, webhook, waiter,
                   cleanup, processing, payment_tracking, message,
                   payment_request>>

\* GET /payment/status/{checkout_request_id}
PaymentStatusResponse(id) ==
    IF Has(payment_tracking, id)
    THEN [op |-> "payment_status", id |-> id, http |-> 200,
          result_code |-> payment_tracking[id].result_code,
          result_desc |-> payment_tracking[id].result_desc]
    ELSE [op |-> "payment_status", id |-> id, http |-> 404,
          result_code |-> None, result_desc |-> None]

unified_get_payment_status(id) ==
    /\ ret' = PaymentStatusResponse(id)
    /\ UNCHANGED <<tracker, lock, notification_queue, now, webhook, waiter,
                   cleanup, processing, servers>>

NextUnified ==
    \/ TickSecond
    \/ \E id \in Ids, rc \in ResultCodes, phone \in MetadataPhoneNumbers :
           unified_mpesa_callback(id, rc, phone)
    \/ unified_mpesa_callback_raises
    \/ \E id \in Ids : unified_get_payment_status(id)

SpecUnified == Init /\ [][NextUnified]_vars

\* C29: a callback with a non-zero ResultCode for an id that has an entry in
\* payment_tracking sends a WhatsApp failure message; after a handled
\* callback the entry of its id holds that callback's result_code and
\* result_desc; and the status endpoint returns the entry, 404 only for an id
\* without one.
C29_FailureMessageAndLastResult ==
    [][(\A id \in Ids, rc \in ResultCodes, phone \in MetadataPhoneNumbers :
            unified_mpesa_callback(id, rc, phone)
                => /\ (rc # 0 /\ Has(payment_tracking, id))
                          => \E i \in DOMAIN whatsapp_sent' :
                                 whatsapp_sent'[i].text = "failure"
                   /\ payment_tracking'[id].result_code = rc
                   /\ payment_tracking'[id].result_desc
                          = CallbackData(id, rc).ResultDesc)
       /\ (\A a \in Ids :
            unified_get_payment_status(a)
                => /\ ret'.http = 404 <=> ~Has(payment_tracking, a)
                   /\ Has(payment_tracking, a)
                          => ret'.result_code = payment_tracking[a].result_code)
      ]_vars

------------------------------------------------------------------------------
\* callback_server.handle_payment_request: payment-request detection.  A
\* message is a sequence of symbols: "Send" and "send" stand for an
\* occurrence of one of the verbs send, pay, transfer (capitalised or not),
\* "to" for an occurrence of to or for, " " for a whitespace character, "0"
\* and "5" for digits, "x" for any other character.
Symbols == {"Send", "to", " ", "0", "5", "x"}
Whitespace == {" "}
Digits == {"0", "5"}

MessagesOfLen(n) == [1..n -> Symbols]

\* Mutant of Lower: the message is matched as typed.
LowerNot(m) == m

\* message.lower()
Lower(m) == [i \in 1..Len(m) |-> IF m[i] = "Send" THEN "send" ELSE m[i]]

\* .strip()
RECURSIVE Strip(_)
Strip(m) ==
    IF m = << >> THEN m
    ELSE IF Head(m) \in Whitespace THEN Strip(Tail(m))
    ELSE IF m[Len(m)] \in Whitespace THEN Strip(SubSeq(m, 1, Len(m) - 1))
    ELSE m

\* The index after the longest run of symbols of a class that starts at i
\* (i itself if there is none): what a greedy \s+ or \d+ consumes.
RECURSIVE RunEnd(_, _, _)
RunEnd(m, i, class) ==
    IF i <= Len(m) /\ m[i] \in class THEN RunEnd(m, i + 1, class) ELSE i

NoMatch == [matched |-> FALSE, groups |-> << >>]

\* r'(?:send|pay|transfer)\s+(\d+)\s+(?:to|for)\s+(\d+)' matched at i
VerbAmountRecipientAt(m, i) ==
    LET j1 == RunEnd(m, i + 1, Whitespace)
        j2 == RunEnd(m, j1, Digits)
        j3 == RunEnd(m, j2, Whitespace)
        j4 == RunEnd(m, j3 + 1, Whitespace)
        j5 == RunEnd(m, j4, Digits) IN
    IF /\ m[i] = "send" /\ j1 > i + 1 /\ j2 > j1 /\ j3 > j2
       /\ j3 <= Len(m) /\ m[j3] = "to" /\ j4 > j3 + 1 /\ j5 > j4
    THEN [matched |-> TRUE,
          groups |-> << SubSeq(m, j1, j2 - 1), SubSeq(m, j4, j5 - 1) >>]
    ELSE NoMatch

\* r'(?:send|pay|transfer)\s+(\d+)' matched at i
VerbAmountAt(m, i) ==
    LET j1 == RunEnd(m, i + 1, Whitespace)
        j2 == RunEnd(m, j1, Digits) IN
    IF m[i] = "send" /\ j1 > i + 1 /\ j2 > j1
    THEN [matched |-> TRUE, groups |-> << SubSeq(m, j1, j2 - 1) >>]
    ELSE NoMatch

\* r'(\d+)\s+(?:to|for)\s+(\d+)' matched at i
AmountRecipientAt(m, i) ==
    LET j2 == RunEnd(m, i, Digits)
        j3 == RunEnd(m, j2, Whitespace)
        j4 == RunEnd(m, j3 + 1, Whitespace)
        j5 == RunEnd(m, j4, Digits) IN
    IF /\ j2 > i /\ j3 > j2 /\ j3 <= Len(m) /\ m[j3] = "to"
       /\ j4 > j3 + 1 /\ j5 > j4
    THEN [matched |-> TRUE,
          groups |-> << SubSeq(m, i, j2 - 1), SubSeq(m, j4, j5 - 1) >>]
    ELSE NoMatch

payment_patterns == 1..3

PatternAt(pattern, m, i) ==
    CASE pattern = 1 -> VerbAmountRecipientAt(m, i)
      [] pattern = 2 -> VerbAmountAt(m, i)
      [] pattern = 3 -> AmountRecipientAt(m, i)

\* re.search(pattern, message_lower): the leftmost match.
ReSearch(pattern, m) ==
    LET starts == {i \in 1..Len(m) : PatternAt(pattern, m, i).matched} IN
    IF starts = {} THEN NoMatch
    ELSE PatternAt(pattern, m, CHOOSE i \in starts : \A k \in starts : i <= k)

\* for pattern in payment_patterns: ... break at the first that matches.
FirstMatch(m) ==
    LET matching == {p \in payment_patterns : ReSearch(p, m).matched} IN
    IF matching = {} THEN NoMatch
    ELSE ReSearch(CHOOSE p \in matching : \A q \in matching : p <= q, m)

\* int(match.group(1))
RECURSIVE int(_)
int(digits) ==
    IF digits = << >> THEN 0
    ELSE int(SubSeq(digits, 1, Len(digits) - 1)) * 10
             + (IF digits[Len(digits)] = "5" THEN 5 ELSE 0)

\* recipient_number = None: a captured group is never empty.
NoRecipient == << >>

\* What handle_payment_request makes of a message: with `if not amount` it
\* returns None before anything is initiated; otherwise it goes on to
\* initiate_stk_push with the amount.
PaymentRequest(m) ==
    LET match == FirstMatch(Strip(Lower(m)))
        amount == IF match.matched THEN int(match.groups[1]) ELSE 0
        recipient_number == IF match.matched /\ Len(match.groups) > 1
                            THEN match.groups[2] ELSE NoRecipient IN
    IF amount = 0
    THEN [initiated |-> FALSE, amount |-> 0, recipient_number |-> NoRecipient]
    ELSE [initiated |-> TRUE, amount |-> amount,
          recipient_number |-> recipient_number]

handle_payment_request ==
    /\ payment_request = NoDict
    /\ payment_request' = PaymentRequest(message)
    /\ UNCHANGED <<tracker, lock, notification_queue, now, webhook, waiter,
                   cleanup, processing, payment_tracking, whatsapp_sent,
                   message, ret>>

\* SpecParsing: every message up to MaxMessageLen symbols is given to
\* handle_payment_request.
InitParsing ==
    /\ pending_payments = EmptyDict
    /\ completed_payments = EmptyDict
    /\ payment_callbacks = EmptyDict
    /\ lock = Free
    /\ notification_queue = <<>>
    /\ now = 0
    /\ webhook = [t \in Webhooks |-> IdleWebhook]
    /\ waiter = [w \in Waiters |-> IdleWaiter]
    /\ cleanup = [pc |-> "sleep", wake_at |-> CLEANUP_PERIOD, cutoff |-> 0,
                  error_logged |-> FALSE]
    /\ processing = [pc |-> "get", error_logged |-> FALSE]
    /\ payment_tracking = EmptyDict
    /\ whatsapp_sent = <<>>
    /\ \E n \in 0..MaxMessageLen : message \in MessagesOfLen(n)
    /\ payment_request = NoDict
    /\ ret = NoDict

NextParsing == handle_payment_request

SpecParsing == InitParsing /\ [][NextParsing]_vars

\* The claim's two readings of a payment request, stated on the message as
\* typed: a verb, whitespace, a digit; or a digit, whitespace, to/for,
\* whitespace, a digit.
IsVerb(c) == c \in {"Send", "send"}

Gap(m, i, j) == j > i + 1 /\ \A k \in (i + 1)..(j - 1) : m[k] \in Whitespace

ContainsVerbAmount(m) ==
    \E i \in 1..Len(m), j \in 1..Len(m) :
        IsVerb(m[i]) /\ Gap(m, i, j) /\ m[j] \in Digits

ContainsAmountRecipient(m) ==
    \E i \in 1..Len(m), j \in 1..Len(m), k \in 1..Len(m) :
        /\ m[i] \in Digits /\ Gap(m, i, j) /\ m[j] = "to"
        /\ Gap(m, j, k) /\ m[k] \in Digits

LooksLikePaymentRequest(m) == ContainsVerbAmount(m) \/ ContainsAmountRecipient(m)

BackgroundCallbackFuncs == {None, "notify_user", "query_status"}

NextBackground ==
    \/ TickHour
    \/ \E id \in Registered, meta \in PlainMetadata, cb \in BackgroundCallbackFuncs :
           register_payment(id, meta, cb)
    \/ \E t \in Webhooks, id \in Registered, rc \in {0} :
           process_callback(t, id, rc)
    \/ \E t \in Webhooks : payment_callback(t)
    \/ \E t \in Webhooks : process_callback_return(t)
    \/ process_notifications
    \/ process_notifications_raises
    \/ periodic_cleanup(RETENTION_SECONDS)
    \/ cleanup_old_payments
    \/ cleanup_old_payments_raises

SpecBackground ==
    /\ Init
    /\ [][NextBackground]_vars
    /\ WF_vars(TickHour)
    /\ WF_vars(\E t \in Webhooks : payment_callback(t))
    /\ WF_vars(\E t \in Webhooks : process_callback_return(t))
    /\ WF_vars(process_notifications \/ process_notifications_raises)
    /\ WF_vars(periodic_cleanup(RETENTION_SECONDS))
    /\ WF_vars(cleanup_old_payments \/ cleanup_old_payments_raises)

\* C22: after a cleanup run has raised and been logged, a sleep the clock
\* outlasts is followed by another run, and every later run that starts comes
\* to its end; after a notification has raised and been logged, whatever is
\* enqueued is still taken off the queue.
ClockHorizon == MaxHourJumps * CLEANUP_PERIOD

C22_BackgroundThreadsSurvive ==
    /\ (cleanup.error_logged /\ cleanup.pc = "sleep"
            /\ cleanup.wake_at <= ClockHorizon) ~> (cleanup.pc = "sweep")
    /\ (cleanup.error_logged /\ cleanup.pc = "sweep") ~> (cleanup.pc = "sleep")
    /\ (processing.error_logged /\ notification_queue # <<>>)
           ~> (notification_queue = <<>>)

====
